---- MODULE Spec2Model ----
(***************************************************************************)
(* Wavetable build engine, generator registry and CLI request path of the  *)
(* wavetable_synthesis package.                                            *)
(*                                                                         *)
(* Numbers.  A float64 sample is modelled as an exact rational <<n, d>> in *)
(* lowest terms with d > 0, so equal values are equal tuples.  The float32 *)
(* samples of the output buffer are modelled as <<m, e>> standing for      *)
(* m * 2^e, with |m| < 2^24 odd (or <<0, 0>>), obtained by rounding the    *)
(* rational to a 24 bit significand, ties to even.  NaN and the infinities *)
(* are the pairs with denominator 0.  All integers stay far below 2^31.    *)
(***************************************************************************)
EXTENDS Integers, Sequences, FiniteSets, TLC

(***************************************************************************)
(* Bounds of the model.                                                    *)
(***************************************************************************)
MaxFrames == 3
MaxFrameSize == 4

(***************************************************************************)
(* Rational arithmetic (float64 values).                                   *)
(***************************************************************************)
RECURSIVE GCD(_, _)
GCD(a, b) == IF b = 0 THEN a ELSE GCD(b, a % b)

IAbs(n) == IF n < 0 THEN -n ELSE n

Sgn(n) == IF n < 0 THEN -1 ELSE IF n > 0 THEN 1 ELSE 0

\* The float64 values that are not numbers: a zero denominator.
NaN == <<0, 0>>
PosInf == <<1, 0>>

\* np.isfinite / np.isnan of one value
IsFinite(q) == q[2] # 0
IsNaN(q) == q = NaN

\* -1, 0, 1 for -inf, a finite value, +inf
Ext(q) == IF q[2] # 0 THEN 0 ELSE q[1]

Norm(n, d) ==
    IF d = 0 THEN <<Sgn(n), 0>>
    ELSE LET s == IF d < 0 THEN -1 ELSE 1
             g == GCD(IAbs(n), IAbs(d))
         IN  <<(s * n) \div g, (s * d) \div g>>

R(n) == <<n, 1>>
Zero == <<0, 1>>
One == <<1, 1>>

RNeg(q) == <<-q[1], q[2]>>

\* IEEE 754: nan + x = nan, inf + (-inf) = nan, inf + x = inf.
RAdd(p, q) ==
    IF IsFinite(p) /\ IsFinite(q)
    THEN Norm(p[1] * q[2] + q[1] * p[2], p[2] * q[2])
    ELSE IF IsNaN(p) \/ IsNaN(q) THEN NaN
    ELSE IF IsFinite(p) THEN q
    ELSE IF IsFinite(q) THEN p
    ELSE IF p = q THEN p ELSE NaN

RSub(p, q) ==
    IF IsFinite(p) /\ IsFinite(q)
    THEN Norm(p[1] * q[2] - q[1] * p[2], p[2] * q[2])
    ELSE RAdd(p, RNeg(q))

\* inf * 0 = nan and nan * x = nan come out of Norm(0, 0).
RMul(p, q) == Norm(p[1] * q[1], p[2] * q[2])

\* 1 / q: 1 / 0 = inf (numpy warns and goes on), 1 / inf = 0.
Recip(q) ==
    IF q[2] = 0 THEN (IF q[1] = 0 THEN NaN ELSE Zero)
    ELSE IF q[1] = 0 THEN PosInf
    ELSE Norm(q[2], q[1])

RDiv(p, q) == RMul(p, Recip(q))

\* Comparisons with nan are false.
RLess(p, q) ==
    IF IsNaN(p) \/ IsNaN(q) THEN FALSE
    ELSE IF IsFinite(p) /\ IsFinite(q) THEN p[1] * q[2] < q[1] * p[2]
    ELSE Ext(p) < Ext(q)

RLeq(p, q) ==
    IF IsNaN(p) \/ IsNaN(q) THEN FALSE
    ELSE IF IsFinite(p) /\ IsFinite(q) THEN p[1] * q[2] <= q[1] * p[2]
    ELSE Ext(p) <= Ext(q)

RAbs(p) == <<IAbs(p[1]), p[2]>>

\* np.maximum / np.minimum (np.max, np.clip): nan propagates.
RMax(p, q) ==
    IF IsNaN(p) \/ IsNaN(q) THEN NaN ELSE IF RLess(p, q) THEN q ELSE p
RMin(p, q) ==
    IF IsNaN(p) \/ IsNaN(q) THEN NaN ELSE IF RLess(q, p) THEN q ELSE p

RECURSIVE SumSeq(_)
SumSeq(x) == IF x = <<>> THEN Zero ELSE RAdd(x[1], SumSeq(Tail(x)))

RECURSIVE MaxAbs(_)
MaxAbs(x) == IF x = <<>> THEN Zero ELSE RMax(RAbs(x[1]), MaxAbs(Tail(x)))

Mean(x) == RDiv(SumSeq(x), R(Len(x)))

\* np.all(np.isfinite(x))
AllFinite(x) == \A i \in 1..Len(x) : IsFinite(x[i])

RECURSIVE Concat(_)
Concat(rows) == IF rows = <<>> THEN <<>> ELSE rows[1] \o Concat(Tail(rows))

MapSeq(x, Op(_)) == [i \in 1..Len(x) |-> Op(x[i])]

(***************************************************************************)
(* constants.py                                                            *)
(***************************************************************************)
\* EPSILON = 1e-12 is kept as the pair of factors 10^6 * 10^6.
EpsilonRoot == 1000000

\* q > EPSILON, i.e. q[2] < q[1] * 10^12, computed without leaving 32 bits.
GtEpsilon(q) ==
    /\ q[1] > 0
    /\ \/ q[1] > 2147
       \/ (q[2] \div EpsilonRoot) < q[1] * EpsilonRoot

(***************************************************************************)
(* float64 -> float32 (ndarray.astype(np.float32)).                        *)
(***************************************************************************)
MantissaBits == 24

\* Scale n/d (both positive) by powers of two until d <= n < 2d.
RECURSIVE Scale(_, _, _)
Scale(n, d, e) ==
    IF n >= 2 * d THEN Scale(n, 2 * d, e + 1)
    ELSE IF n < d THEN Scale(2 * n, d, e - 1)
    ELSE <<n, d, e>>

\* Long division: m holds the bits produced so far, r the remainder (r < d).
RECURSIVE Bits(_, _, _, _)
Bits(m, r, d, k) ==
    IF k = 0 THEN <<m, r>>
    ELSE IF 2 * r >= d THEN Bits(2 * m + 1, 2 * r - d, d, k - 1)
         ELSE Bits(2 * m, 2 * r, d, k - 1)

RECURSIVE Strip(_, _)
Strip(m, e) == IF m % 2 = 0 THEN Strip(m \div 2, e + 1) ELSE <<m, e>>

\* float32 values that are not numbers: <<0, 1>> is nan, <<1, 128>> and
\* <<-1, 128>> are the infinities (2^128 is where float32 overflows).
F32NaN == <<0, 1>>
F32Inf(sign) == <<sign, 128>>

astype_float32(q) ==
    IF q[2] = 0 THEN (IF q[1] = 0 THEN F32NaN ELSE F32Inf(q[1]))
    ELSE IF q[1] = 0 THEN <<0, 0>>
    ELSE LET s  == Scale(IAbs(q[1]), q[2], 0)
             b  == Bits(1, s[1] - s[2], s[2], MantissaBits - 1)
             m  == b[1]
             r  == b[2]
             up == \/ 2 * r > s[2]
                   \/ (2 * r = s[2] /\ m % 2 = 1)
             mm == IF up THEN m + 1 ELSE m
             v  == Strip(mm, s[3] - (MantissaBits - 1))
         IN  IF q[1] < 0 THEN <<-v[1], v[2]>> ELSE v

RECURSIVE Pow2(_)
Pow2(k) == IF k = 0 THEN 1 ELSE 2 * Pow2(k - 1)

\* np.isfinite of a float32 value
F32IsFinite(f) == f # F32NaN /\ f[2] < 128

\* np.all(np.isfinite(data))
AllFinite32(data) == \A i \in 1..Len(data) : F32IsFinite(data[i])

\* |m * 2^e| <= 1 for a float32 value <<m, e>>.
F32InUnit(f) ==
    \/ f = <<0, 0>>
    \/ /\ f[1] # 0
       /\ f[2] <= 0
       /\ \/ -f[2] >= MantissaBits
          \/ IAbs(f[1]) <= Pow2(-f[2])

(***************************************************************************)
(* processing.py                                                           *)
(***************************************************************************)
\* The default of the target_peak parameter.
DEFAULT_TARGET_PEAK == One

\* Variant: the gain is 1 / peak whatever target_peak is.
normalize_waveform_unit(waveform, target_peak) ==
    IF Len(waveform) = 0 THEN waveform
    ELSE LET peak == MaxAbs(waveform)
         IN  IF GtEpsilon(peak)
             THEN LET k == RDiv(One, peak)
                  IN  [i \in 1..Len(waveform) |-> RMul(waveform[i], k)]
             ELSE waveform

\* Variant: the gain is target_peak / peak ** 2.
normalize_waveform_squared(waveform, target_peak) ==
    IF Len(waveform) = 0 THEN waveform
    ELSE LET peak == MaxAbs(waveform)
         IN  IF GtEpsilon(peak)
             THEN LET k == RDiv(target_peak, RMul(peak, peak))
                  IN  [i \in 1..Len(waveform) |-> RMul(waveform[i], k)]
             ELSE waveform

normalize_waveform(waveform, target_peak) ==
    IF Len(waveform) = 0 THEN waveform
    ELSE LET peak == MaxAbs(waveform)
         IN  IF GtEpsilon(peak)
             THEN LET k == RDiv(target_peak, peak)
                  IN  [i \in 1..Len(waveform) |-> RMul(waveform[i], k)]
             ELSE waveform

\* Variant: the first sample is subtracted instead of the mean.
remove_dc_offset_first(waveform) ==
    IF Len(waveform) = 0 THEN waveform
    ELSE [i \in 1..Len(waveform) |-> RSub(waveform[i], waveform[1])]

remove_dc_offset(waveform) ==
    IF Len(waveform) = 0 THEN waveform
    ELSE LET mu == Mean(waveform)
         IN  [i \in 1..Len(waveform) |-> RSub(waveform[i], mu)]

\* The 2-D table is a sequence of rows; the mean is over all samples.
remove_wavetable_dc_offset(wavetable) ==
    IF Len(Concat(wavetable)) = 0 THEN wavetable
    ELSE LET mu == Mean(Concat(wavetable))
         IN  [k \in 1..Len(wavetable) |->
                [j \in 1..Len(wavetable[k]) |-> RSub(wavetable[k][j], mu)]]

\* Variant: np.concatenate([waveform[i:], waveform[:i - 1]]).
RotateDropOne(waveform, i) ==
    SubSeq(waveform, i + 1, Len(waveform)) \o SubSeq(waveform, 1, i - 1)

\* np.concatenate([waveform[i:], waveform[:i]]) for a 0-based index i.
Rotate(waveform, i) ==
    SubSeq(waveform, i + 1, Len(waveform)) \o SubSeq(waveform, 1, i)

\* Variant: waveform[i-1] < 0 < waveform[i].
CrossingsStrict(waveform) ==
    {i \in 1..(Len(waveform) - 1) :
        RLess(waveform[i], Zero) /\ RLess(Zero, waveform[i + 1])}

\* 0-based indices i >= 1 with waveform[i-1] <= 0 < waveform[i].
Crossings(waveform) ==
    {i \in 1..(Len(waveform) - 1) :
        RLeq(waveform[i], Zero) /\ RLess(Zero, waveform[i + 1])}

SetMin(S) == CHOOSE m \in S : \A n \in S : m <= n

SetMax(S) == CHOOSE m \in S : \A n \in S : m >= n

\* Variant: the last index of the least |sample|.
ArgMinAbsLast(waveform) ==
    IF \E j \in 1..Len(waveform) : IsNaN(waveform[j])
    THEN SetMax({i \in 0..(Len(waveform) - 1) : IsNaN(waveform[i + 1])})
    ELSE SetMax({i \in 0..(Len(waveform) - 1) :
            \A j \in 1..Len(waveform) : RLeq(RAbs(waveform[i + 1]), RAbs(waveform[j]))})

\* np.argmin(np.abs(waveform)): first 0-based index of the least |sample|;
\* the first nan if there is one.
ArgMinAbs(waveform) ==
    IF \E j \in 1..Len(waveform) : IsNaN(waveform[j])
    THEN SetMin({i \in 0..(Len(waveform) - 1) : IsNaN(waveform[i + 1])})
    ELSE SetMin({i \in 0..(Len(waveform) - 1) :
            \A j \in 1..Len(waveform) : RLeq(RAbs(waveform[i + 1]), RAbs(waveform[j]))})

\* Variant: the rotation is by i - 1, the sample before the crossing comes
\* first.
align_to_zero_crossing_low(waveform) ==
    IF Crossings(waveform) # {}
    THEN Rotate(waveform, SetMin(Crossings(waveform)) - 1)
    ELSE LET idx == ArgMinAbs(waveform)
         IN  IF idx > 0 THEN Rotate(waveform, idx) ELSE waveform

\* Called on non-empty buffers only; on an empty one argmin raises.
align_to_zero_crossing(waveform) ==
    IF Crossings(waveform) # {}
    THEN Rotate(waveform, SetMin(Crossings(waveform)))
    ELSE LET idx == ArgMinAbs(waveform)
         IN  IF idx > 0 THEN Rotate(waveform, idx) ELSE waveform

FADE_SAMPLES == 4

\* np.linspace(a, b, n) for n >= 1
linspace(a, b, n) ==
    [i \in 1..n |->
        IF n = 1 THEN a
        ELSE RAdd(a, RMul(RSub(b, a), Norm(i - 1, n - 1)))]

\* apply_fade_edges: the array the call leaves behind.  The fades are
\* applied with *= on slices of the argument, and the argument is returned.
apply_fade_edges(waveform, fade_samples) ==
    IF Len(waveform) <= 2 * fade_samples THEN waveform
    ELSE LET n        == Len(waveform)
             fade_in  == linspace(Zero, One, fade_samples)
             fade_out == linspace(One, Zero, fade_samples)
             w1 == [i \in 1..n |->
                      IF i <= fade_samples
                      THEN RMul(waveform[i], fade_in[i]) ELSE waveform[i]]
         IN  [i \in 1..n |->
                IF i > n - fade_samples
                THEN RMul(w1[i], fade_out[i - (n - fade_samples)]) ELSE w1[i]]

\* Variant: the clip is skipped.
clamp_amplitude_noop(waveform) == waveform

clamp_amplitude(waveform) ==
    [i \in 1..Len(waveform) |-> RMax(R(-1), RMin(One, waveform[i]))]

(***************************************************************************)
(* Generators (types.py GeneratorInput): a class instance with generate,   *)
(* get_processing and get_info, or a plain callable (theta, u) -> samples. *)
(* A generator is a record                                                 *)
(*   wave               the formula it evaluates,                          *)
(*   has_get_processing whether hasattr(generator, "get_processing"),      *)
(*   get_processing     the dict that method returns (flag -> bool),       *)
(*   rowlen             the length of the array it returns: "same" as      *)
(*                      theta (the contract), "one", "empty" or "extra";   *)
(*                      "raises_late" returns arrays as long as theta but  *)
(*                      raises ValueError when u > 1/2;                    *)
(*                      "divides_by_zero" does so but raises               *)
(*                      ZeroDivisionError when u = 1.                      *)
(***************************************************************************)
Flags == {"wt_normalise", "wt_dc_remove", "wf_normalise", "wf_dc_remove"}

\* BaseGenerator.get_processing and the defaults of WavetableGenerator.generate
AllTrue == [f \in Flags |-> TRUE]

\* Phase k of N as a fraction of a turn: theta[k] = TAU * k / N.
Theta(k, N) == IF N = 0 THEN Zero ELSE Norm(k, N)

\* sin(TAU * t) in thousandths for the phases of frame sizes 1..6; sin(pi)
\* is 1.2e-16 in float64, below every threshold it is compared with.
Sin(t) ==
    CASE t = <<0, 1>> -> Zero   [] t = <<1, 1>> -> Zero
      [] t = <<1, 2>> -> Zero
      [] t = <<1, 3>> -> <<433, 500>>  [] t = <<2, 3>> -> <<-433, 500>>
      [] t = <<1, 4>> -> One           [] t = <<3, 4>> -> R(-1)
      [] t = <<1, 5>> -> <<951, 1000>> [] t = <<2, 5>> -> <<147, 250>>
      [] t = <<3, 5>> -> <<-147, 250>> [] t = <<4, 5>> -> <<-951, 1000>>
      [] t = <<1, 6>> -> <<433, 500>>  [] t = <<5, 6>> -> <<-433, 500>>

\* SquarePWMTZGenerator.generate: y = sign(sin(theta) - pw), pw = 2u - 1.
SquarePWMTZ(t, u) ==
    LET pw == RMax(R(-1), RMin(One, RSub(RMul(R(2), u), One)))
        d  == RSub(Sin(t), pw)
    IN  IF GtEpsilon(d) THEN One
        ELSE IF GtEpsilon(RSub(Zero, d)) THEN R(-1) ELSE Zero

\* (2/pi) * arcsin(sin(theta)) of SineToTriangleGenerator.generate
Triangle(t) ==
    IF RLeq(t, <<1, 4>>) THEN RMul(R(4), t)
    ELSE IF RLeq(t, <<3, 4>>) THEN RSub(R(2), RMul(R(4), t))
    ELSE RSub(RMul(R(4), t), R(4))

\* theta / pi - 1 of Example.generate
Sawtooth(t) == RSub(RMul(R(2), t), One)

\* (1 - u) * triangle + u * sawtooth
TriSaw(t, u) == RAdd(RMul(RSub(One, u), Triangle(t)), RMul(u, Sawtooth(t)))

\* An over-driven, biased variant: 2 * trisaw + 1/2, range [-3/2, 5/2].
Hot(t, u) == RAdd(RMul(R(2), TriSaw(t, u)), <<1, 2>>)

\* 1 / theta with no guard: +inf at theta = 0.
RecipWave(t) == Recip(t)

\* triangle(theta) / theta with no guard: 0 / 0 = nan at theta = 0.
Sinc(t) == RDiv(Triangle(t), t)

Waves == {"pwm", "trisaw", "triangle", "hot", "recip", "sinc"}

Wave(w, t, u) ==
    CASE w = "pwm" -> SquarePWMTZ(t, u)
      [] w = "trisaw" -> TriSaw(t, u)
      [] w = "triangle" -> Triangle(t)
      [] w = "hot" -> Hot(t, u)
      [] w = "recip" -> RecipWave(t)
      [] w = "sinc" -> Sinc(t)

RowLen(g, N) ==
    CASE g.rowlen = "same" -> N
      [] g.rowlen = "one" -> 1
      [] g.rowlen = "empty" -> 0
      [] g.rowlen = "extra" -> N + 1
      [] g.rowlen = "raises_late" -> N
      [] g.rowlen = "divides_by_zero" -> N

\* generate raises instead of returning (e.g. math.sqrt(0.5 - u)).
GeneratorRaises(g, u) ==
    \/ g.rowlen = "raises_late" /\ RLess(<<1, 2>>, u)
    \/ g.rowlen = "divides_by_zero" /\ u = One

\* The exception it raises then: ValueError (math domain error), or
\* ZeroDivisionError from a division by 1 - u with Python floats.
RaisedBy(g) ==
    IF g.rowlen = "divides_by_zero" THEN "ZeroDivisionError" ELSE "ValueError"

\* generator.generate(theta, u) / generator(theta, u) for len(theta) = N
Invoke(g, N, u) == [k \in 1..RowLen(g, N) |-> Wave(g.wave, Theta(k - 1, N), u)]

\* The dicts get_processing may return: every full assignment of the four
\* flags, the empty dict, and the dicts naming one flag only.
ProcessingDicts ==
    [Flags -> BOOLEAN]
    \cup {[f \in {} |-> TRUE]}
    \cup {[f \in {g} |-> b] : g \in Flags, b \in BOOLEAN}

Gen(w, has, cfg, len) ==
    [wave |-> w, has_get_processing |-> has, get_processing |-> cfg, rowlen |-> len]

\* The shipped square_pwm_tz instance.
SquarePWMTZGenerator == Gen("pwm", TRUE, AllTrue, "same")

\* A plain function; it has no get_processing.
PlainCallable(w) == Gen(w, FALSE, [f \in {} |-> TRUE], "same")

ContractGenerators ==
    {Gen(w, TRUE, cfg, "same") : w \in {"trisaw", "hot"}, cfg \in ProcessingDicts}
    \cup {PlainCallable(w) : w \in {"trisaw", "hot"}}
    \cup {SquarePWMTZGenerator}

\* Generators that break the length contract.
BrokenGenerators ==
    {Gen("hot", TRUE, cfg, len) :
        cfg \in {AllTrue, [f \in Flags |-> FALSE]}, len \in {"one", "empty", "extra"}}

AllFalse == [f \in Flags |-> FALSE]

\* Generators whose samples are not all finite.
NonFiniteGenerators ==
    {Gen(w, TRUE, cfg, "same") : w \in {"recip", "sinc"}, cfg \in {AllTrue, AllFalse}}

\* A generator that works for the first frames and raises for the later ones.
RaisingGenerators == {Gen("trisaw", TRUE, AllTrue, "raises_late")}

\* Generators whose row does not depend on u: [0, 1, 0, -1] for a frame
\* size of 4.
FixedRowGenerators ==
    {Gen("triangle", TRUE, cfg, "same") : cfg \in {AllTrue, AllFalse}}
    \cup {PlainCallable("triangle")}

Generators ==
    ContractGenerators \cup BrokenGenerators \cup NonFiniteGenerators
    \cup RaisingGenerators \cup FixedRowGenerators

NoGenerator == Gen("none", FALSE, [f \in {} |-> TRUE], "same")

(***************************************************************************)
(* State.                                                                  *)
(***************************************************************************)
VARIABLES
    pc,                 \* "idle", "loop" (inside generate), "done", "raised"
    generator,          \* the generator of the current build
    frames,             \* WavetableGenerator.frames
    frame_size,         \* WavetableGenerator.frame_size
    quality_processing, \* WavetableGenerator.quality_processing
    processing_config,  \* the dict resolved at the top of generate
    frame_idx,          \* loop variable of generate
    table,              \* the frames x frame_size array, a sequence of rows
    calls,              \* the morph scalars the generator was invoked with
    out,                \* the float32 buffer returned by generate
    raised,             \* the exception that left generate, or "none"
    trace,              \* the stages generate has run so far, in order
    DECORATOR_REGISTRY, \* decorator_registry._DECORATOR_REGISTRY
    began,              \* a lookup or a build has happened in this run
    returned,           \* the mapping handed out by the last get_registry
    op,                 \* the last registry or CLI operation and its outcome
    cli,                \* the CLI request being served
    ref,                \* a build key whose outputs are recorded
    memo,               \* the outputs recorded for ref
    buffer,             \* the array a caller passes to a processing function
    arg,                \* the content of that array when the call was made
    retval,             \* the array the processing function returned
    stage,              \* the processing function last called and how it ended
    history,            \* the functions applied in a row, each to the result
                        \* of the one before
    info,               \* a metadata dict handed to validate_info
    verdict,            \* what validate_info did with it
    main                \* the run of cli.main: its mode, the batch loop's
                        \* counters and requests, and the status returned

engine == <<pc, generator, frames, frame_size, quality_processing,
            processing_config, frame_idx, table, calls, out, raised, trace>>
reg == <<DECORATOR_REGISTRY, returned, op>>
cliv == <<cli>>
det == <<ref, memo>>

stagev == <<buffer, arg, retval, stage, history>>
infov == <<info, verdict>>
aux == <<stagev, infov, main>>

vars == <<engine, reg, began, cliv, det, aux>>

(***************************************************************************)
(* wavetable_generator.py: WavetableGenerator.generate                     *)
(***************************************************************************)
\* Variant: the defaults live in one shared dict that update() keeps changing.
ResolveConfigStale(prev, g) ==
    IF g.has_get_processing
    THEN [f \in Flags |->
            IF f \in DOMAIN g.get_processing THEN g.get_processing[f] ELSE prev[f]]
    ELSE prev

\* Variant: the dict of the generator replaces the defaults, a flag it does
\* not name is off.
ResolveConfigReplace(prev, g) ==
    IF g.has_get_processing
    THEN [f \in Flags |->
            IF f \in DOMAIN g.get_processing THEN g.get_processing[f] ELSE FALSE]
    ELSE AllTrue

\* processing_config.update(generator.get_processing()) over the defaults;
\* prev is the dict of the previous build, which the code never reuses.
ResolveConfig(prev, g) ==
    IF g.has_get_processing
    THEN [f \in Flags |->
            IF f \in DOMAIN g.get_processing THEN g.get_processing[f] ELSE AllTrue[f]]
    ELSE AllTrue

\* np.zeros((frames, frame_size)); negative dimensions raise ValueError.
np_zeros(F, N) == [k \in 1..F |-> [j \in 1..N |-> Zero]]

\* Variant: the divisor is frames instead of frames - 1.
MorphOffByOne(idx, F) == IF F > 1 THEN Norm(idx, F) ELSE Zero

\* u = frame_idx / (frames - 1) if frames > 1 else 0.0
Morph(idx, F) == IF F > 1 THEN Norm(idx, F - 1) ELSE Zero

\* The per-waveform pipeline and the final safety clamp (lines 85-94).
\* With quality processing an empty waveform raises in np.argmin.
FrameRaises(waveform, quality) == quality /\ Len(waveform) = 0

\* Variant: the per-waveform DC removal is never run.
ProcessFrameNoDc(waveform, config, quality) ==
    LET w2 == IF quality /\ config["wf_normalise"]
              THEN normalize_waveform(waveform, DEFAULT_TARGET_PEAK) ELSE waveform
        w3 == IF quality THEN align_to_zero_crossing(w2) ELSE w2
    IN  clamp_amplitude(w3)

ProcessFrame(waveform, config, quality) ==
    LET w1 == IF quality /\ config["wf_dc_remove"]
              THEN remove_dc_offset(waveform) ELSE waveform
        w2 == IF quality /\ config["wf_normalise"]
              THEN normalize_waveform(w1, DEFAULT_TARGET_PEAK) ELSE w1
        w3 == IF quality THEN align_to_zero_crossing(w2) ELSE w2
    IN  clamp_amplitude(w3)

\* One stage generate ran: its name, the frame it ran on (-1 for a stage on
\* the whole table) and the array it produced.
Event(name, idx, result) == [stage |-> name, frame |-> idx, result |-> result]

\* The array the next stage is given: the result of the last stage run.
Current(events, waveform) ==
    IF events = <<>> THEN waveform ELSE events[Len(events)].result

\* Variant: normalize_waveform is called before remove_dc_offset.
FrameTraceNormalizeFirst(waveform, config, quality, idx) ==
    LET e1 == IF quality /\ config["wf_normalise"]
              THEN <<Event("normalize_waveform", idx,
                           normalize_waveform(waveform, DEFAULT_TARGET_PEAK))>>
              ELSE <<>>
        e2 == IF quality /\ config["wf_dc_remove"]
              THEN Append(e1, Event("remove_dc_offset", idx,
                                    remove_dc_offset(Current(e1, waveform))))
              ELSE e1
        e3 == IF quality
              THEN Append(e2, Event("align_to_zero_crossing", idx,
                                    align_to_zero_crossing(Current(e2, waveform))))
              ELSE e2
    IN  Append(e3, Event("clamp_amplitude", idx, clamp_amplitude(Current(e3, waveform))))

\* The calls of lines 85-94 for one frame, in the order they are made, each
\* with the array it returned.
FrameTrace(waveform, config, quality, idx) ==
    LET e1 == IF quality /\ config["wf_dc_remove"]
              THEN <<Event("remove_dc_offset", idx, remove_dc_offset(waveform))>>
              ELSE <<>>
        e2 == IF quality /\ config["wf_normalise"]
              THEN Append(e1, Event("normalize_waveform", idx,
                                    normalize_waveform(Current(e1, waveform),
                                                       DEFAULT_TARGET_PEAK)))
              ELSE e1
        e3 == IF quality
              THEN Append(e2, Event("align_to_zero_crossing", idx,
                                    align_to_zero_crossing(Current(e2, waveform))))
              ELSE e2
    IN  Append(e3, Event("clamp_amplitude", idx, clamp_amplitude(Current(e3, waveform))))

\* table[frame_idx, :] = waveform: a row of the right length is copied, a
\* row of length 1 is broadcast, any other length raises ValueError.
StoreRaises(row, cols) == Len(row) # cols /\ Len(row) # 1

StoreRow(row, cols) ==
    IF Len(row) = cols THEN row ELSE [j \in 1..cols |-> row[1]]

RECURSIVE MaxOf(_)
MaxOf(x) == IF Len(x) = 1 THEN x[1] ELSE RMax(x[1], MaxOf(Tail(x)))

\* Variant: global_peak = np.max(table), without np.abs.
ProcessTableSignedPeak(tbl, config, quality) ==
    LET t1 == IF quality /\ config["wt_dc_remove"]
              THEN remove_wavetable_dc_offset(tbl) ELSE tbl
        peak == IF Len(Concat(t1)) > 0 THEN MaxOf(Concat(t1)) ELSE Zero
    IN  IF quality /\ config["wt_normalise"] /\ Len(Concat(t1)) > 0 /\ GtEpsilon(peak)
        THEN [k \in 1..Len(t1) |-> [j \in 1..Len(t1[k]) |-> RDiv(t1[k][j], peak)]]
        ELSE t1

\* The wavetable-level stages (lines 98-109).
ProcessTable(tbl, config, quality) ==
    LET t1 == IF quality /\ config["wt_dc_remove"]
              THEN remove_wavetable_dc_offset(tbl) ELSE tbl
        peak == MaxAbs(Concat(t1))
    IN  IF quality /\ config["wt_normalise"] /\ Len(Concat(t1)) > 0 /\ GtEpsilon(peak)
        THEN [k \in 1..Len(t1) |-> [j \in 1..Len(t1[k]) |-> RDiv(t1[k][j], peak)]]
        ELSE t1

\* table / global_peak when the table is not empty and the peak is above
\* EPSILON (lines 106-109).
GlobalNormalize(tbl) ==
    IF Len(Concat(tbl)) > 0 /\ GtEpsilon(MaxAbs(Concat(tbl)))
    THEN [k \in 1..Len(tbl) |->
            [j \in 1..Len(tbl[k]) |-> RDiv(tbl[k][j], MaxAbs(Concat(tbl)))]]
    ELSE tbl

\* Variant: the global normalization comes before the wavetable DC removal.
TableTraceNormalizeFirst(tbl, config, quality) ==
    LET e1 == IF quality /\ config["wt_normalise"]
              THEN <<Event("global_normalize", -1, GlobalNormalize(tbl))>>
              ELSE <<>>
    IN  IF quality /\ config["wt_dc_remove"]
        THEN Append(e1, Event("remove_wavetable_dc_offset", -1,
                              remove_wavetable_dc_offset(Current(e1, tbl))))
        ELSE e1

\* The wavetable-level stages of lines 98-109 in the order they are run,
\* each with the table it left.
TableTrace(tbl, config, quality) ==
    LET e1 == IF quality /\ config["wt_dc_remove"]
              THEN <<Event("remove_wavetable_dc_offset", -1,
                           remove_wavetable_dc_offset(tbl))>>
              ELSE <<>>
    IN  IF quality /\ config["wt_normalise"]
        THEN Append(e1, Event("global_normalize", -1,
                              GlobalNormalize(Current(e1, tbl))))
        ELSE e1

\* Variant: the last row is left out of the output.
FlattenDropLast(tbl) == Concat(SubSeq(tbl, 1, Len(tbl) - 1))

\* Variant: column-major order, table.flatten(order="F").
FlattenColumnMajor(tbl) ==
    IF tbl = <<>> THEN <<>>
    ELSE Concat([j \in 1..Len(tbl[1]) |-> [k \in 1..Len(tbl) |-> tbl[k][j]]])

\* table.flatten(): row-major.
Flatten(tbl) == Concat(tbl)

\* Lines 56-69: resolve the configuration, build theta, allocate the table.
Enter(g, F, N, quality) ==
    /\ pc = "idle"
    /\ generator' = g
    /\ frames' = F
    /\ frame_size' = N
    /\ quality_processing' = quality
    /\ processing_config' = ResolveConfig(processing_config, g)
    /\ frame_idx' = 0
    /\ calls' = <<>>
    /\ out' = <<>>
    /\ trace' = <<>>
    /\ began' = TRUE
    /\ IF F < 0 \/ N < 0
       THEN /\ pc' = "raised"
            /\ raised' = "ValueError"
            /\ table' = <<>>
       ELSE /\ pc' = "loop"
            /\ raised' = "none"
            /\ table' = np_zeros(F, N)

NoRequest == [active |-> FALSE, waveform_name |-> "", frames |-> 0,
              sample_rate |-> 0, bit_depth |-> 0]

\* generator.py: generate_wavetable goes through create_simple.
generate_wavetable(g, F, N) ==
    /\ ~cli.active
    /\ Enter(g, F, N, TRUE)
    /\ UNCHANGED <<reg, cliv, det, aux>>

\* WavetableGenerator(frames, frame_size, quality_processing).generate(g)
generate(g, F, N, quality) ==
    /\ ~cli.active
    /\ Enter(g, F, N, quality)
    /\ UNCHANGED <<reg, cliv, det, aux>>

\* Variant: the failure of a frame is swallowed, the loop goes on and the
\* row is left as allocated.
AbortSwallowed(exc) ==
    /\ pc' = pc
    /\ raised' = raised
    /\ table' = table
    /\ frame_idx' = frame_idx + 1

\* An exception raised inside the loop is not caught in generate: it ends
\* the loop and the call, and generate returns nothing.
Abort(exc) ==
    /\ pc' = "raised"
    /\ raised' = exc
    /\ UNCHANGED <<table, frame_idx>>

\* One iteration of the frame loop (lines 72-96).
FrameStep ==
    /\ pc = "loop"
    /\ frame_idx < frames
    /\ LET u        == Morph(frame_idx, frames)
           waveform == Invoke(generator, frame_size, u)
       IN  /\ calls' = Append(calls, u)
           /\ IF GeneratorRaises(generator, u)
              THEN Abort(RaisedBy(generator)) /\ UNCHANGED trace
              ELSE IF FrameRaises(waveform, quality_processing)
              THEN Abort("ValueError") /\ UNCHANGED trace
              ELSE LET row == ProcessFrame(waveform, processing_config, quality_processing)
                       cols == Len(table[frame_idx + 1])
                       ran == FrameTrace(waveform, processing_config,
                                         quality_processing, frame_idx)
                   IN  IF StoreRaises(row, cols)
                       THEN Abort("ValueError") /\ trace' = trace \o ran
                       ELSE /\ table' = [table EXCEPT ![frame_idx + 1] = StoreRow(row, cols)]
                            /\ trace' = trace \o ran
                                  \o <<Event("store", frame_idx, StoreRow(row, cols))>>
                            /\ frame_idx' = frame_idx + 1
                            /\ UNCHANGED <<pc, raised>>
    /\ UNCHANGED <<generator, frames, frame_size, quality_processing,
                   processing_config, out>>
    /\ UNCHANGED <<reg, began, cliv, det, aux>>

\* The key (generator, frames, frame_size) of the build in progress.
Key == <<generator, frames, frame_size>>
NoKey == <<NoGenerator, 0, 0>>

\* After the loop (lines 98-112): wavetable-level stages, flatten, float32.
Finish ==
    /\ pc = "loop"
    /\ frame_idx = frames
    /\ LET final == ProcessTable(table, processing_config, quality_processing)
           buf   == MapSeq(Flatten(final), astype_float32)
       IN  /\ table' = final
           /\ out' = buf
           /\ trace' = trace
                  \o TableTrace(table, processing_config, quality_processing)
                  \o <<Event("flatten", -1, buf)>>
           /\ memo' = IF Key = ref /\ quality_processing
                      THEN [outs |-> memo.outs \cup {buf},
                            n |-> IF memo.n < 2 THEN memo.n + 1 ELSE 2]
                      ELSE memo
    /\ pc' = "done"
    /\ UNCHANGED <<generator, frames, frame_size, quality_processing,
                   processing_config, frame_idx, calls, raised>>
    /\ UNCHANGED <<reg, began, cliv, ref, aux>>

\* The caller of the API takes the buffer (or the exception); the locals of
\* generate are gone.
Return ==
    /\ pc \in {"done", "raised"}
    /\ ~cli.active
    /\ pc' = "idle"
    /\ generator' = NoGenerator
    /\ frames' = 0
    /\ frame_size' = 0
    /\ quality_processing' = TRUE
    /\ frame_idx' = 0
    /\ table' = <<>>
    /\ calls' = <<>>
    /\ out' = <<>>
    /\ raised' = "none"
    /\ trace' = <<>>
    /\ UNCHANGED <<processing_config, reg, began, cliv, det, aux>>

(***************************************************************************)
(* decorator_registry.py                                                   *)
(***************************************************************************)
EmptyDict == [n \in {} |-> NoGenerator]

\* d[name] = g
Put(d, name, g) == [n \in DOMAIN d \cup {name} |-> IF n = name THEN g ELSE d[n]]

\* d.pop(name, None)
Pop(d, name) == [n \in DOMAIN d \ {name} |-> d[n]]

\* op: the operation last performed on the registry or by the CLI, the name
\* it was given, its result, and what it did to the output directory.
OpRec(kind, name, result, dir) ==
    [kind |-> kind, name |-> name, result |-> result, output_dir |-> dir]

NoOp == OpRec("none", "", "", "absent")

\* returned: the mapping a caller holds after get_registry.  alias tells
\* whether it is the registry object itself; map is its own content if not.
NoMapping == [held |-> FALSE, alias |-> FALSE, map |-> EmptyDict]

\* @register_generator(name) applied to a class: _DECORATOR_REGISTRY[name] = cls()
register_generator(name, instance) ==
    /\ pc = "idle" /\ ~cli.active
    /\ DECORATOR_REGISTRY' = Put(DECORATOR_REGISTRY, name, instance)
    /\ op' = OpRec("register_generator", name, "registered", "absent")
    /\ UNCHANGED <<engine, returned, began, cliv, det, aux>>

clear_registry ==
    /\ pc = "idle" /\ ~cli.active
    /\ DECORATOR_REGISTRY' = EmptyDict
    /\ op' = OpRec("clear_registry", "", "cleared", "absent")
    /\ UNCHANGED <<engine, returned, began, cliv, det, aux>>

\* Variant: the registry object itself is handed out.
get_registry_no_copy(registry) == [held |-> TRUE, alias |-> TRUE, map |-> EmptyDict]

\* return _DECORATOR_REGISTRY.copy()
get_registry_result(registry) == [held |-> TRUE, alias |-> FALSE, map |-> registry]

get_registry ==
    /\ pc = "idle" /\ ~cli.active
    /\ returned' = get_registry_result(DECORATOR_REGISTRY)
    /\ op' = OpRec("get_registry", "", "mapping", "absent")
    /\ UNCHANGED <<engine, DECORATOR_REGISTRY, began, cliv, det, aux>>

\* What the caller sees in the mapping it holds.
ReturnedMap == IF returned.alias THEN DECORATOR_REGISTRY ELSE returned.map

\* The caller writes into the mapping it was given: mapping[name] = g, or
\* mapping.pop(name) when remove is set.
MutateReturned(name, g, remove) ==
    /\ pc = "idle" /\ ~cli.active
    /\ returned.held
    /\ LET new == IF remove THEN Pop(ReturnedMap, name) ELSE Put(ReturnedMap, name, g)
       IN  IF returned.alias
           THEN /\ DECORATOR_REGISTRY' = new
                /\ UNCHANGED returned
           ELSE /\ returned' = [returned EXCEPT !.map = new]
                /\ UNCHANGED DECORATOR_REGISTRY
    /\ op' = OpRec("mutate_returned", name, "mutated", "absent")
    /\ UNCHANGED <<engine, began, cliv, det, aux>>

(***************************************************************************)
(* cli.py                                                                  *)
(***************************************************************************)
VALID_SAMPLE_RATES == {44100, 48000, 96000}
VALID_BIT_DEPTHS == {16, 24, 32}

\* FRAME_SIZE of cli.py is 2048; the model serves requests with frames of
\* MaxCliFrameSize samples.
MaxCliFrameSize == 4
FRAME_SIZE == MaxCliFrameSize

\* Variant: an unknown name falls back to some registered generator.
LookupWithFallback(registry, name) ==
    IF name \in DOMAIN registry
    THEN [found |-> TRUE, generator |-> registry[name]]
    ELSE IF DOMAIN registry # {}
         THEN [found |-> TRUE,
               generator |-> registry[CHOOSE n \in DOMAIN registry : TRUE]]
         ELSE [found |-> FALSE, generator |-> NoGenerator]

\* get_generator_function: None (found = FALSE) when the name is absent.
Lookup(registry, name) ==
    IF name \in DOMAIN registry
    THEN [found |-> TRUE, generator |-> registry[name]]
    ELSE [found |-> FALSE, generator |-> NoGenerator]

get_generator_function(name) ==
    /\ pc = "idle" /\ ~cli.active
    /\ began' = TRUE
    /\ op' = OpRec("get_generator_function", name,
                   IF Lookup(DECORATOR_REGISTRY, name).found
                   THEN "generator" ELSE "Error: Unknown generator", "absent")
    /\ UNCHANGED <<engine, DECORATOR_REGISTRY, returned, cliv, det, aux>>

\* A request that ends before the build (lines 213-240).
Refuse(name, result, lookedUp) ==
    /\ op' = OpRec("generate_wavetable", name, result, "absent")
    /\ began' = (began \/ lookedUp)
    /\ UNCHANGED <<engine, cliv>>

\* cli.generate_wavetable up to the call of the core (lines 211-247);
\* writable is whether the output directory can be created and written.
cli_generate_wavetable(name, F, sample_rate, bit_depth, writable) ==
    /\ pc = "idle" /\ ~cli.active
    /\ UNCHANGED <<DECORATOR_REGISTRY, returned, det, stagev, infov>>
    /\ IF F <= 0 THEN Refuse(name, "Error: Invalid frame count", FALSE)
       ELSE IF sample_rate \notin VALID_SAMPLE_RATES
            THEN Refuse(name, "Error: Invalid sample rate", FALSE)
       ELSE IF bit_depth \notin VALID_BIT_DEPTHS
            THEN Refuse(name, "Error: Invalid bit depth", FALSE)
       ELSE IF ~Lookup(DECORATOR_REGISTRY, name).found
            THEN Refuse(name, "Error: Unknown generator", TRUE)
       ELSE IF ~writable
            THEN Refuse(name, "Error: Cannot create/access output directory", TRUE)
       ELSE /\ op' = OpRec("generate_wavetable", name, "Generating", "created")
            /\ cli' = [active |-> TRUE, waveform_name |-> name, frames |-> F,
                       sample_rate |-> sample_rate, bit_depth |-> bit_depth]
            /\ Enter(Lookup(DECORATOR_REGISTRY, name).generator, F, FRAME_SIZE, TRUE)

\* except (ValueError, OSError, IOError, RuntimeError) of generate_wavetable
\* (line 265); an exception of another class leaves the function.
CaughtInRequest == {"ValueError", "OSError", "RuntimeError"}

\* cli.generate_wavetable after the core returned or raised (lines 249-266);
\* saved is whether save_wavetable could write the file.
CliComplete(saved) ==
    /\ pc \in {"done", "raised"}
    /\ cli.active
    /\ op' = [op EXCEPT
                !.result = IF pc = "raised"
                           THEN IF raised \in CaughtInRequest
                                THEN "Error: ValueError" ELSE raised
                           ELSE IF Len(out) = 0 \/ ~AllFinite32(out)
                                THEN "Error: Invalid wavetable data generated"
                           ELSE IF saved THEN "Success" ELSE "Error: OSError",
                !.output_dir = IF pc = "done" /\ Len(out) # 0 /\ AllFinite32(out) /\ saved
                               THEN "file" ELSE "created"]
    /\ cli' = NoRequest
    /\ pc' = "idle"
    /\ generator' = NoGenerator
    /\ frames' = 0
    /\ frame_size' = 0
    /\ quality_processing' = TRUE
    /\ frame_idx' = 0
    /\ table' = <<>>
    /\ calls' = <<>>
    /\ out' = <<>>
    /\ raised' = "none"
    /\ trace' = <<>>
    /\ UNCHANGED <<processing_config, DECORATOR_REGISTRY, returned, began, det,
                   stagev, infov>>

(***************************************************************************)
(* Specification of the build engine.                                      *)
(***************************************************************************)
FrameCounts == -1..MaxFrames
FrameSizes == -1..MaxFrameSize

\* No processing function and no validate_info call has been made.
Stage(fn, fade_samples, target_peak, exc, chained) ==
    [fn |-> fn, fade_samples |-> fade_samples, target_peak |-> target_peak,
     raised |-> exc, chained |-> chained]
NoStage == Stage("none", 0, DEFAULT_TARGET_PEAK, FALSE, FALSE)
NoInfo == [f \in {} |-> "str"]
NoVerdict == [called |-> FALSE, raised |-> FALSE, fields |-> {}]

\* cli.main has not been called; exit_code -1 stands for "has not returned".
NoMain == [mode |-> "none", current_item |-> 0, generated_count |-> 0,
           attempted |-> <<>>, exit_code |-> -1]

InitAux ==
    /\ buffer = <<>>
    /\ arg = <<>>
    /\ retval = <<>>
    /\ stage = NoStage
    /\ history = <<>>
    /\ info = NoInfo
    /\ verdict = NoVerdict
    /\ main = NoMain

InitEngine ==
    /\ pc = "idle"
    /\ generator = NoGenerator
    /\ frames = 0
    /\ frame_size = 0
    /\ quality_processing = TRUE
    /\ processing_config = AllTrue
    /\ frame_idx = 0
    /\ table = <<>>
    /\ calls = <<>>
    /\ out = <<>>
    /\ raised = "none"
    /\ trace = <<>>

InitRest ==
    /\ InitEngine
    /\ DECORATOR_REGISTRY = EmptyDict
    /\ began = FALSE
    /\ returned = NoMapping
    /\ op = NoOp
    /\ cli = NoRequest
    /\ ref = NoKey
    /\ memo = [outs |-> {}, n |-> 0]

Init == InitRest /\ InitAux

Build == \E g \in Generators, F \in FrameCounts, N \in FrameSizes :
            generate_wavetable(g, F, N)

DirectGenerate == \E g \in Generators, F \in FrameCounts, N \in FrameSizes :
            generate(g, F, N, FALSE)

Next ==
    \/ Build
    \/ DirectGenerate
    \/ FrameStep
    \/ Finish
    \/ Return

Spec == Init /\ [][Next]_vars

(***************************************************************************)
(* Specification of the registry and the CLI request path.                 *)
(***************************************************************************)
MaxCliFrames == 2

\* Names used with @register_generator, and one that never is.
RegNames == {"square_pwm_tz", "my_wave"}
LookupNames == RegNames \cup {"unknown_generator"}

\* A contributed generator class (example.py is the template for one).
MyWaveGenerator == Gen("trisaw", TRUE, AllTrue, "same")

\* Contributed classes that break the contract: one raises for the later
\* frames, one returns arrays that are too long, one divides by theta and
\* switches the processing off, one returns nan with the default processing.
FaultyInstances ==
    {Gen("trisaw", TRUE, AllTrue, "raises_late"),
     Gen("hot", TRUE, AllTrue, "extra"),
     Gen("recip", TRUE, AllFalse, "same"),
     Gen("sinc", TRUE, AllTrue, "same")}

SoundInstances == {SquarePWMTZGenerator, MyWaveGenerator}

Instances == SoundInstances \cup FaultyInstances

\* The classes that register under a name: the shipped name is claimed by the
\* shipped class and by a colliding contribution, the other name by any.
InstancesFor(name) == IF name = "square_pwm_tz" THEN SoundInstances ELSE Instances

CliFrames == 0..MaxCliFrames
CliSampleRates == {44100, 22050}
CliBitDepths == {16, 8}

Register == \E name \in RegNames : \E g \in InstancesFor(name) :
            register_generator(name, g)

Mutate == \E name \in RegNames, g \in SoundInstances, remove \in BOOLEAN :
            MutateReturned(name, g, remove)

LookupCall == \E name \in LookupNames : get_generator_function(name)

CliRequest ==
    \E name \in LookupNames, F \in CliFrames, sr \in CliSampleRates,
       bd \in CliBitDepths, writable \in BOOLEAN :
          /\ cli_generate_wavetable(name, F, sr, bd, writable)
          /\ UNCHANGED main

CliDone == \E saved \in BOOLEAN : CliComplete(saved) /\ UNCHANGED main

NextCli ==
    \/ Register
    \/ clear_registry
    \/ get_registry
    \/ Mutate
    \/ LookupCall
    \/ CliRequest
    \/ FrameStep
    \/ Finish
    \/ CliDone

SpecCli == Init /\ [][NextCli]_vars

(***************************************************************************)
(* Specification of cli.main: one run of the command line program, with a  *)
(* generator name or with --batch, over a registry filled at import time.  *)
(***************************************************************************)
\* sorted(registry.keys()), for the names of the model.
NameOrder == <<"my_wave", "square_pwm_tz">>
Sorted(names) == SelectSeq(NameOrder, LAMBDA n : n \in names)

\* The lists generate_all_wavetables loops over (lines 283-285).  The frame
\* counts 64, 128, 256, 512 are scaled down to frames the model builds.
frame_counts == <<1, 2, 3, 4>>
sample_rates == <<44100, 48000>>
bit_depths == <<16, 24>>

\* total_combinations (line 287)
total_combinations(registry) ==
    Cardinality(DOMAIN registry) * Len(frame_counts) * Len(sample_rates) * Len(bit_depths)

\* The request the nested loops make when current_item becomes item.
RequestAt(registry, item) ==
    LET i == item - 1
        perGenerator == Len(frame_counts) * Len(sample_rates) * Len(bit_depths)
        perFrames == Len(sample_rates) * Len(bit_depths)
    IN  [generator |-> Sorted(DOMAIN registry)[(i \div perGenerator) + 1],
         frames |-> frame_counts[((i % perGenerator) \div perFrames) + 1],
         sample_rate |-> sample_rates[((i % perFrames) \div Len(bit_depths)) + 1],
         bit_depth |-> bit_depths[(i % Len(bit_depths)) + 1]]

\* except (ValueError, OSError, RuntimeError) of the batch loop (line 312)
CaughtInBatch == {"ValueError", "OSError", "RuntimeError"}

\* The exception that leaves cli.generate_wavetable when the build ended as
\* it did, or "none".
Escapes == IF pc = "raised" /\ raised \notin CaughtInRequest THEN raised ELSE "none"

\* A contributed generator that divides by 1 - u.
DividesByZeroGenerator == Gen("trisaw", TRUE, AllTrue, "divides_by_zero")

MainInstances == Instances \cup {DividesByZeroGenerator}

\* The registries main may find: any of the names, each bound to a class.
MainRegistries ==
    UNION {[names -> MainInstances] : names \in SUBSET RegNames}

\* main with a generator name (lines 341-346).  --rate and --bits have
\* choices: argparse ends the program with status 2 for any other value.
\* generate_wavetable returns None whatever it did; exit_code stays 0.
MainWaveform(name, F, sample_rate, bit_depth, writable) ==
    /\ main.mode = "none"
    /\ IF sample_rate \notin VALID_SAMPLE_RATES \/ bit_depth \notin VALID_BIT_DEPTHS
       THEN /\ main' = [main EXCEPT !.mode = "waveform", !.exit_code = 2]
            /\ op' = OpRec("main", name, "usage", "absent")
            /\ UNCHANGED <<engine, DECORATOR_REGISTRY, returned, began, cliv, det,
                           stagev, infov>>
       ELSE /\ cli_generate_wavetable(name, F, sample_rate, bit_depth, writable)
            /\ main' = [main EXCEPT !.mode = "waveform",
                                    !.exit_code = IF cli'.active THEN -1 ELSE 0]

\* The build of the request is over: generate_wavetable reports and returns
\* and main returns exit_code, or the exception reaches the except Exception
\* of main, which returns 1 (lines 342-356).
MainWaveformDone(saved) ==
    /\ main.mode = "waveform" /\ main.exit_code = -1
    /\ CliComplete(saved)
    /\ main' = [main EXCEPT !.exit_code = IF Escapes # "none" THEN 1 ELSE 0]

\* main --batch up to the loops (lines 333-340, 279-291).
MainBatch(writable) ==
    /\ main.mode = "none"
    /\ pc = "idle" /\ ~cli.active
    /\ main' = [main EXCEPT !.mode = "batch",
                            !.exit_code = IF writable THEN -1 ELSE 1]
    /\ op' = OpRec("main", "--batch",
                   IF writable THEN "Generating" ELSE "Error: Cannot create output directory",
                   IF writable THEN "created" ELSE "absent")
    /\ UNCHANGED <<engine, DECORATOR_REGISTRY, returned, began, cliv, det, stagev, infov>>

\* One pass of the innermost loop body up to the build (lines 302-310): a
\* request that generate_wavetable refuses returns at once and is counted.
BatchStep(writable) ==
    /\ main.mode = "batch" /\ main.exit_code = -1
    /\ main.current_item < total_combinations(DECORATOR_REGISTRY)
    /\ LET r == RequestAt(DECORATOR_REGISTRY, main.current_item + 1)
       IN  /\ cli_generate_wavetable(r.generator, r.frames, r.sample_rate,
                                     r.bit_depth, writable)
           /\ main' = [main EXCEPT
                         !.current_item = @ + 1,
                         !.attempted = Append(@, r),
                         !.generated_count = IF cli'.active THEN @ ELSE @ + 1]

\* The build of a batch request is over (lines 309-313): generated_count
\* grows when generate_wavetable returned, an exception named by the except
\* clause is printed, any other leaves the loops and main returns 1.
BatchItemDone(saved) ==
    /\ main.mode = "batch" /\ main.exit_code = -1
    /\ CliComplete(saved)
    /\ main' = IF Escapes = "none"
               THEN [main EXCEPT !.generated_count = @ + 1]
               ELSE IF Escapes \in CaughtInBatch THEN main
               ELSE [main EXCEPT !.exit_code = 1]

\* The loops are over: the summary is printed and main returns 0.
BatchEnd ==
    /\ main.mode = "batch" /\ main.exit_code = -1
    /\ pc = "idle" /\ ~cli.active
    /\ main.current_item = total_combinations(DECORATOR_REGISTRY)
    /\ main' = [main EXCEPT !.exit_code = 0]
    /\ UNCHANGED <<engine, reg, began, cliv, det, stagev, infov>>

InitMain ==
    /\ InitEngine
    /\ DECORATOR_REGISTRY \in MainRegistries
    /\ began = FALSE
    /\ returned = NoMapping
    /\ op = NoOp
    /\ cli = NoRequest
    /\ ref = NoKey
    /\ memo = [outs |-> {}, n |-> 0]
    /\ InitAux

MainRequest ==
    \E name \in LookupNames, F \in CliFrames, sr \in CliSampleRates,
       bd \in CliBitDepths, writable \in BOOLEAN :
          MainWaveform(name, F, sr, bd, writable)

MainRequestDone == \E saved \in BOOLEAN : MainWaveformDone(saved)

MainBatchStart == \E writable \in BOOLEAN : MainBatch(writable)

BatchRequest == \E writable \in BOOLEAN : BatchStep(writable)

BatchRequestDone == \E saved \in BOOLEAN : BatchItemDone(saved)

NextMain ==
    \/ MainRequest
    \/ MainRequestDone
    \/ MainBatchStart
    \/ BatchRequest
    \/ BatchRequestDone
    \/ BatchEnd
    \/ FrameStep
    \/ Finish

SpecMain == InitMain /\ [][NextMain]_vars

(***************************************************************************)
(* Specification for repeated builds: the outputs of every build with the  *)
(* key ref are recorded in memo.                                           *)
(***************************************************************************)
MaxDetFrames == 2
MaxDetFrameSize == 3

DetGenerators ==
    {SquarePWMTZGenerator,
     PlainCallable("hot"),
     Gen("hot", TRUE, [f \in Flags |-> FALSE], "same"),
     Gen("trisaw", TRUE, [f \in {"wf_normalise"} |-> FALSE], "same")}

DetFrames == 1..MaxDetFrames
DetFrameSizes == 2..MaxDetFrameSize

InitDet ==
    /\ InitEngine
    /\ DECORATOR_REGISTRY = Put(EmptyDict, "square_pwm_tz", SquarePWMTZGenerator)
    /\ began = FALSE
    /\ returned = NoMapping
    /\ op = NoOp
    /\ cli = NoRequest
    /\ ref \in DetGenerators \X DetFrames \X DetFrameSizes
    /\ memo = [outs |-> {}, n |-> 0]
    /\ InitAux

BuildDet == \E g \in DetGenerators, F \in DetFrames, N \in DetFrameSizes :
                generate_wavetable(g, F, N)

NextDet ==
    \/ BuildDet
    \/ FrameStep
    \/ Finish
    \/ Return
    \/ get_registry

SpecDet == InitDet /\ [][NextDet]_vars

(***************************************************************************)
(* Specification of the processing functions called on their own: a caller *)
(* holds an array (buffer), passes it to a function of processing.py and   *)
(* may pass what it got back to the next one.                              *)
(***************************************************************************)
MaxBufLen == 3
MaxLongLen == 9
MaxChain == 2

Samples == {R(-1), <<-1, 2>>, Zero, <<1, 3>>, One, <<3, 2>>, PosInf, NaN}

\* Every array of up to MaxBufLen samples, and longer ones of equal samples.
Buffers ==
    UNION {[1..n -> Samples] : n \in 0..MaxBufLen}
    \cup {[i \in 1..n |-> v] : n \in (MaxBufLen + 1)..MaxLongLen, v \in {One, <<-1, 2>>}}

\* The target peaks a caller passes; DEFAULT_TARGET_PEAK is the default.
TargetPeaks == {<<1, 2>>, DEFAULT_TARGET_PEAK, R(2)}

\* The fade lengths a caller passes; FADE_SAMPLES is the default.
FadeLengths == {1, 2, FADE_SAMPLES}

\* The function does not write to its argument.
Untouched(x) == x

\* A call fn(x).  x is the caller's own array in the first call and
\* (chained) the array the previous call returned in the later ones.
\* Ret(x) is the array returned, After(x) the content of x when the call is
\* over; buffer follows the array passed.
Call(fn, fade_samples, target_peak, chained, Ret(_), After(_)) ==
    /\ Len(history) < MaxChain
    /\ ~stage.raised
    /\ chained <=> stage.fn # "none"
    /\ LET x == IF chained THEN retval ELSE buffer
       IN  /\ arg' = x
           /\ retval' = Ret(x)
           /\ buffer' = After(x)
    /\ stage' = Stage(fn, fade_samples, target_peak, FALSE, chained)
    /\ history' = Append(history, [fn |-> fn, target_peak |-> target_peak])
    /\ UNCHANGED <<engine, reg, began, cliv, det, infov, main>>

CallNormalize == \E chained \in BOOLEAN, target_peak \in TargetPeaks :
    Call("normalize_waveform", 0, target_peak, chained,
         LAMBDA x : normalize_waveform(x, target_peak), Untouched)

CallRemoveDc == \E chained \in BOOLEAN :
    Call("remove_dc_offset", 0, DEFAULT_TARGET_PEAK, chained, remove_dc_offset, Untouched)

\* On an empty array np.argmin raises ValueError.
CallAlign == \E chained \in BOOLEAN :
    IF Len(IF chained THEN retval ELSE buffer) = 0
    THEN /\ Len(history) < MaxChain
         /\ ~stage.raised
         /\ chained <=> stage.fn # "none"
         /\ arg' = <<>>
         /\ buffer' = <<>>
         /\ stage' = Stage("align_to_zero_crossing", 0, DEFAULT_TARGET_PEAK, TRUE, chained)
         /\ history' = Append(history, [fn |-> "align_to_zero_crossing",
                                         target_peak |-> DEFAULT_TARGET_PEAK])
         /\ UNCHANGED retval
         /\ UNCHANGED <<engine, reg, began, cliv, det, infov, main>>
    ELSE Call("align_to_zero_crossing", 0, DEFAULT_TARGET_PEAK, chained,
              align_to_zero_crossing, Untouched)

CallClamp == \E chained \in BOOLEAN :
    Call("clamp_amplitude", 0, DEFAULT_TARGET_PEAK, chained, clamp_amplitude, Untouched)

\* The returned array is the argument itself, faded in place.
CallFade == \E chained \in BOOLEAN, fade_samples \in FadeLengths :
    Call("apply_fade_edges", fade_samples, DEFAULT_TARGET_PEAK, chained,
         LAMBDA x : apply_fade_edges(x, fade_samples),
         LAMBDA x : apply_fade_edges(x, fade_samples))

InitStage ==
    /\ InitRest
    /\ buffer \in Buffers
    /\ arg = <<>>
    /\ retval = <<>>
    /\ stage = NoStage
    /\ history = <<>>
    /\ info = NoInfo
    /\ verdict = NoVerdict
    /\ main = NoMain

NextStage ==
    \/ CallNormalize
    \/ CallRemoveDc
    \/ CallAlign
    \/ CallClamp
    \/ CallFade

SpecStage == InitStage /\ [][NextStage]_vars

(***************************************************************************)
(* base_generator.py: BaseGenerator.validate_info.                         *)
(* A metadata dict maps the fields it has to the kind of value they hold:  *)
(* "str" (a non-empty string), "empty_str", "list", "bool" or "int".       *)
(***************************************************************************)
required_fields ==
    <<"name", "id", "description", "author", "tags", "collections", "keywords", "free">>

Fields == {required_fields[i] : i \in 1..Len(required_fields)}

\* [field for field in required_fields if field not in info]
missing_fields(d) == {f \in Fields : f \notin DOMAIN d}

\* isinstance(v, str) and v
IsNonEmptyString(kind) == kind = "str"

\* isinstance(v, str)
IsString(kind) == kind \in {"str", "empty_str"}

\* Variant: author goes through _validate_required_string_field as well.
AuthorAcceptedNonEmpty(kind) == IsNonEmptyString(kind)

\* if not isinstance(info["author"], str): raise
AuthorAccepted(kind) == IsString(kind)

\* raise ValueError(...) with a message that names the given fields
Rejected(named) == [called |-> TRUE, raised |-> TRUE, fields |-> named]
Accepted == [called |-> TRUE, raised |-> FALSE, fields |-> {}]

validate_info(d) ==
    IF missing_fields(d) # {} THEN Rejected(missing_fields(d))
    ELSE IF ~IsNonEmptyString(d["name"]) THEN Rejected({"name"})
    ELSE IF ~IsNonEmptyString(d["id"]) THEN Rejected({"id"})
    ELSE IF ~IsNonEmptyString(d["description"]) THEN Rejected({"description"})
    ELSE IF ~AuthorAccepted(d["author"]) THEN Rejected({"author"})
    ELSE IF d["tags"] # "list" THEN Rejected({"tags"})
    ELSE IF d["collections"] # "list" THEN Rejected({"collections"})
    ELSE IF d["keywords"] # "list" THEN Rejected({"keywords"})
    ELSE IF d["free"] # "bool" THEN Rejected({"free"})
    ELSE Accepted

\* The dicts handed to validate_info: each field is missing or holds a value
\* of one of the listed kinds.
InfoChoices ==
    [name : {"missing", "str", "empty_str", "int"},
     id : {"missing", "str", "empty_str", "list"},
     description : {"missing", "str", "empty_str", "bool"},
     author : {"missing", "str", "empty_str", "int"},
     tags : {"missing", "list", "str"},
     collections : {"missing", "list", "empty_str"},
     keywords : {"missing", "list", "int"},
     free : {"missing", "bool", "int"}]

InfoOf(c) == [f \in {g \in Fields : c[g] # "missing"} |-> c[f]]

Infos == {InfoOf(c) : c \in InfoChoices}

ValidateInfo ==
    /\ ~verdict.called
    /\ verdict' = validate_info(info)
    /\ UNCHANGED <<engine, reg, began, cliv, det, stagev, info, main>>

InitInfo ==
    /\ InitRest
    /\ buffer = <<>>
    /\ arg = <<>>
    /\ retval = <<>>
    /\ stage = NoStage
    /\ history = <<>>
    /\ info \in Infos
    /\ verdict = NoVerdict
    /\ main = NoMain

NextInfo == ValidateInfo

SpecInfo == InitInfo /\ [][NextInfo]_vars

(***************************************************************************)
(* Properties of the build engine.                                         *)
(***************************************************************************)
HonoursContract(g) == g.rowlen = "same"

\* A call of generate_wavetable (quality processing on) has ended.
ApiEnded == pc \in {"done", "raised"} /\ quality_processing

\* C1: for a generator that honours the contract and frames > 0 and
\* frame_size > 0, generate_wavetable returns (it does not raise) one flat
\* sequence of exactly frames * frame_size samples.
C1_Shape ==
    (ApiEnded /\ HonoursContract(generator) /\ frames > 0 /\ frame_size > 0)
        => (pc = "done" /\ Len(out) = frames * frame_size)

C1_Witness ==
    /\ pc = "done" /\ quality_processing /\ HonoursContract(generator)
    /\ frames > 1 /\ frame_size > 1
    /\ Len(out) = frames * frame_size

\* The row the frame loop computes for frame k from the morph scalar the
\* generator was invoked with for that frame.
RowOfFrame(k) ==
    ProcessFrame(Invoke(generator, frame_size, calls[k + 1]),
                 processing_config, quality_processing)

\* C2: element k * frame_size + j of the output is sample j of the row of
\* frame k (after the wavetable-level stages, in float32): rows appear in
\* ascending frame_idx order, none reordered, duplicated or dropped.
C2_FrameOrder ==
    /\ (pc = "loop" /\ HonoursContract(generator))
          => \A k \in 0..(frame_idx - 1) : table[k + 1] = RowOfFrame(k)
    /\ (pc = "done" /\ HonoursContract(generator))
          => LET rows  == [k \in 1..frames |-> RowOfFrame(k - 1)]
                 final == ProcessTable(rows, processing_config, quality_processing)
             IN  /\ Len(out) = frames * frame_size
                 /\ \A k \in 0..(frames - 1) : \A j \in 0..(frame_size - 1) :
                       out[k * frame_size + j + 1] = astype_float32(final[k + 1][j + 1])

C2_Witness ==
    /\ pc = "done" /\ HonoursContract(generator)
    /\ frames >= 2 /\ frame_size >= 2
    /\ table[1] # table[2]
    /\ table[1][1] # table[1][2]
    /\ SubSeq(out, 1, frame_size) = MapSeq(table[1], astype_float32)
    /\ SubSeq(out, frame_size + 1, 2 * frame_size) = MapSeq(table[2], astype_float32)

\* C3: the generator is invoked exactly once per frame, and the morph scalar
\* of frame k is k / (frames - 1) when frames > 1 and 0 when frames = 1: it
\* is 0 for the first frame, 1 for the last frame of a multi-frame build,
\* strictly increasing in k and never outside [0, 1].
C3_Morph ==
    /\ pc = "loop" => Len(calls) = frame_idx
    /\ pc = "raised" => Len(calls) \in {frame_idx, frame_idx + 1}
    /\ pc = "done" => Len(calls) = frames
    /\ pc \in {"loop", "done", "raised"} =>
          \A i \in 1..Len(calls) :
             /\ IF frames > 1
                THEN calls[i][1] * (frames - 1) = (i - 1) * calls[i][2]
                ELSE calls[i] = Zero
             /\ RLeq(Zero, calls[i]) /\ RLeq(calls[i], One)
             /\ i = 1 => calls[i] = Zero
             /\ (i = frames /\ frames > 1) => calls[i] = One
             /\ i > 1 => RLess(calls[i - 1], calls[i])

C3_Witness ==
    /\ pc = "done" /\ frames >= 3
    /\ calls[1] = Zero /\ calls[2] = <<1, frames - 1>> /\ calls[frames] = One

\* C5 (as claimed): a build with frames <= 0 or frame_size <= 0 fails before
\* the generator is invoked and returns no sample buffer.
C5_InvalidConfigRejected ==
    (generator # NoGenerator /\ quality_processing /\ (frames <= 0 \/ frame_size <= 0))
        => (pc # "done" /\ calls = <<>>)

\* C6 (as claimed): if the generator returns a row whose length differs from
\* frame_size, the build fails and returns no sample buffer.
C6_LengthMismatchRejected ==
    (pc = "done" /\ quality_processing /\ frames > 0 /\ frame_size > 0)
        => RowLen(generator, frame_size) = frame_size

\* C10: every sample of every row stored in the table by the frame loop lies
\* in [-1, 1], whatever the flags and whatever finite values the generator
\* returned for that row.
C10_StoredRowsClamped ==
    pc = "loop" =>
        \A k \in 1..frame_idx :
            AllFinite(Invoke(generator, frame_size, calls[k])) =>
                \A j \in 1..Len(table[k]) :
                    RLeq(R(-1), table[k][j]) /\ RLeq(table[k][j], One)

C10_Witness ==
    /\ pc = "loop" /\ frame_idx >= 1 /\ frame_size >= 2
    /\ HonoursContract(generator)
    /\ quality_processing /\ ~processing_config["wf_normalise"]
    /\ \E j \in 1..frame_size : RLess(One, Invoke(generator, frame_size, calls[1])[j])
    /\ \E j \in 1..frame_size : table[1][j] = One

\* The largest absolute value of a float32 buffer is exactly 1.
PeakIsOne32(data) ==
    /\ \E i \in 1..Len(data) : data[i] \in {<<1, 0>>, <<-1, 0>>}
    /\ \A i \in 1..Len(data) : F32InUnit(data[i])

\* The rows the frame loop stored, recomputed from the generator.
StoredRows == [k \in 1..frames |-> StoreRow(RowOfFrame(k - 1), frame_size)]

\* The table as the global normalisation finds it: after the whole-table DC
\* removal when that is enabled.
BeforeNormalise(tbl) ==
    IF quality_processing /\ processing_config["wt_dc_remove"]
    THEN remove_wavetable_dc_offset(tbl) ELSE tbl

\* C11: at the step that ends a build with wt_normalise in effect and a
\* finite non-empty table: if the largest absolute sample of the table
\* (after whole-table DC removal, if enabled) exceeds EPSILON, the largest
\* absolute sample of the output is exactly 1; otherwise the output is the
\* table unscaled.
C11_GlobalPeak ==
    [][(/\ pc = "loop" /\ pc' = "done"
        /\ quality_processing /\ processing_config["wt_normalise"]
        /\ Len(Concat(table)) > 0 /\ AllFinite(Concat(table)))
          => LET t1 == BeforeNormalise(table)
             IN  IF GtEpsilon(MaxAbs(Concat(t1)))
                 THEN PeakIsOne32(out')
                 ELSE out' = MapSeq(Concat(t1), astype_float32)]_vars

C11_Witness ==
    /\ pc = "done" /\ quality_processing /\ HonoursContract(generator)
    /\ frames >= 1 /\ frame_size >= 2
    /\ processing_config["wt_normalise"] /\ ~processing_config["wf_normalise"]
    /\ AllFinite(Concat(StoredRows))
    /\ RLess(MaxAbs(Concat(BeforeNormalise(StoredRows))), One)
    /\ GtEpsilon(MaxAbs(Concat(BeforeNormalise(StoredRows))))
    /\ PeakIsOne32(out)

\* C12: with all four flags true, every frame of the finished table has
\* mean exactly zero, and the output is that table sample by sample in
\* float32: no stage after the per-frame DC removal shifts a frame.
C12_FramesZeroMean ==
    (/\ pc = "done" /\ quality_processing /\ processing_config = AllTrue
     /\ frames > 0 /\ frame_size > 0 /\ AllFinite(Concat(table)))
       => \A k \in 1..frames :
            /\ Mean(table[k]) = Zero
            /\ SubSeq(out, (k - 1) * frame_size + 1, k * frame_size)
                  = MapSeq(table[k], astype_float32)

C12_Witness ==
    /\ pc = "done" /\ quality_processing /\ processing_config = AllTrue
    /\ HonoursContract(generator) /\ generator.wave = "hot"
    /\ frames >= 2 /\ frame_size >= 3
    /\ \A k \in 1..frames :
          /\ Mean(Invoke(generator, frame_size, calls[k])) # Zero
          /\ Mean(table[k]) = Zero
          /\ MaxAbs(table[k]) = One

\* C18: the configuration a build works with gives every flag the value the
\* generator's get_processing() supplies for it and TRUE to every flag it
\* does not supply; a generator without get_processing gets all four TRUE.
C18_EffectiveConfig ==
    (pc # "idle" /\ generator # NoGenerator) =>
        \A f \in Flags :
            processing_config[f] =
                IF generator.has_get_processing /\ f \in DOMAIN generator.get_processing
                THEN generator.get_processing[f]
                ELSE TRUE

C18_Witness ==
    /\ pc = "done" /\ quality_processing
    /\ generator.has_get_processing
    /\ DOMAIN generator.get_processing = {"wf_normalise"}
    /\ ~generator.get_processing["wf_normalise"]
    /\ processing_config = [AllTrue EXCEPT !["wf_normalise"] = FALSE]

\* C19 (as claimed): a build whose generated samples or whose output hold
\* nan or an infinity returns no buffer.
C19_NonFiniteRejected ==
    (pc = "done" /\ quality_processing) =>
        /\ \A k \in 1..Len(calls) : AllFinite(Invoke(generator, frame_size, calls[k]))
        /\ AllFinite32(out)

\* C4: two builds with the same (generator, frames, frame_size) produce
\* identical output, whatever builds or registry reads happened in between:
\* all the outputs recorded for the key ref are one and the same.
C4_Deterministic == Cardinality(memo.outs) <= 1

C4_Witness ==
    /\ memo.n = 2 /\ Cardinality(memo.outs) = 1
    /\ pc = "done" /\ Key = ref /\ out \in memo.outs
    /\ op.kind = "get_registry"
    /\ processing_config # AllTrue

(***************************************************************************)
(* Properties of the registry and the CLI.                                 *)
(***************************************************************************)
\* A step of register_generator: the only step that stays idle and leaves
\* "register_generator" as the last operation.
RegisterStep ==
    pc = "idle" /\ pc' = "idle" /\ op'.kind = "register_generator"

\* C7 (as claimed): registering under a name already present leaves the
\* registry unchanged, the earlier generator stays bound to the name.
C7_DuplicateRejected ==
    [][(RegisterStep /\ op'.name \in DOMAIN DECORATOR_REGISTRY)
          => DECORATOR_REGISTRY' = DECORATOR_REGISTRY]_vars

\* C8: looking up a name absent from the registry yields the error outcome
\* and no generator, and the CLI request for that name performs no build,
\* creates no output directory and writes no file.
C8_UnknownGenerator ==
    /\ (op.kind = "get_generator_function" /\ op.name \notin DOMAIN DECORATOR_REGISTRY)
          => op.result = "Error: Unknown generator"
    /\ (op.kind = "generate_wavetable" /\ op.name \notin DOMAIN DECORATOR_REGISTRY)
          => /\ pc = "idle" /\ ~cli.active /\ generator = NoGenerator
             /\ op.output_dir = "absent"
             /\ op.result \in {"Error: Unknown generator", "Error: Invalid frame count",
                               "Error: Invalid sample rate", "Error: Invalid bit depth"}

C8_Witness ==
    /\ op.kind = "generate_wavetable" /\ op.name = "unknown_generator"
    /\ op.result = "Error: Unknown generator"
    /\ DOMAIN DECORATOR_REGISTRY # {}
    /\ pc = "idle" /\ op.output_dir = "absent"

FailedAt(k) ==
    LET u == calls[k + 1]
        waveform == Invoke(generator, frame_size, u)
    IN  \/ GeneratorRaises(generator, u)
        \/ FrameRaises(waveform, quality_processing)
        \/ StoreRaises(ProcessFrame(waveform, processing_config, quality_processing),
                       frame_size)

\* C20: when frame k of a build fails the build is over: the generator is
\* not invoked for any later frame, only the rows 0..k-1 were stored and no
\* buffer is returned; from there the request ends without another frame,
\* without a buffer and without a file written or success reported.
C20_AbortOnFailure ==
    /\ [](\A k \in 0..(Len(calls) - 1) :
            FailedAt(k) =>
                /\ pc = "raised"
                /\ Len(calls) = k + 1
                /\ frame_idx = k
                /\ out = <<>>)
    /\ [][pc = "raised" =>
            /\ pc' \in {"raised", "idle"}
            /\ calls' \in {calls, <<>>}
            /\ out' = <<>>
            /\ op'.output_dir # "file"
            /\ op'.result # "Success"]_vars

C20_Witness ==
    /\ pc = "raised" /\ cli.active
    /\ frame_idx >= 1 /\ Len(calls) = frame_idx + 1
    /\ \E j \in 1..frame_size : table[1][j] # Zero
    /\ out = <<>>

(***************************************************************************)
(* Properties of the processing functions.                                 *)
(***************************************************************************)
\* How many times the value v occurs in x.
Count(x, v) == Cardinality({i \in 1..Len(x) : x[i] = v})

\* The last call was fn applied to what the call before, also fn with the
\* same target_peak, returned.
LastTwo(fn) ==
    /\ stage.chained
    /\ Len(history) >= 2
    /\ history[Len(history)].fn = fn
    /\ history[Len(history) - 1].fn = fn
    /\ history[Len(history)].target_peak = history[Len(history) - 1].target_peak

\* C13: for a non-empty array align_to_zero_crossing returns an array of the
\* same length that is a cyclic rotation of its argument: for some shift s,
\* sample j of the result is sample (j + s) mod length of the argument, so
\* every value occurs as often in the result as in the argument.
C13_AlignIsRotation ==
    (stage.fn = "align_to_zero_crossing" /\ Len(arg) > 0) =>
        /\ ~stage.raised
        /\ Len(retval) = Len(arg)
        /\ \E shift \in 0..(Len(arg) - 1) : \A j \in 1..Len(arg) :
              retval[j] = arg[((j - 1 + shift) % Len(arg)) + 1]
        /\ \A v \in {arg[i] : i \in 1..Len(arg)} \cup {retval[i] : i \in 1..Len(retval)} :
              Count(retval, v) = Count(arg, v)

C13_Witness ==
    /\ stage.fn = "align_to_zero_crossing" /\ Len(arg) = 3
    /\ arg[1] # arg[2] /\ arg[2] # arg[3] /\ arg[1] # arg[3]
    /\ retval = <<arg[3], arg[1], arg[2]>>

\* C14: normalize_waveform applied to the result of normalize_waveform
\* returns that result unchanged, for arrays with a peak above EPSILON and
\* for arrays without.
C14_NormalizeIdempotent ==
    (stage.fn = "normalize_waveform" /\ LastTwo("normalize_waveform")) => retval = arg

C14_Witness ==
    /\ stage.fn = "normalize_waveform" /\ LastTwo("normalize_waveform")
    /\ Len(arg) >= 2 /\ AllFinite(arg)
    /\ MaxAbs(arg) = One
    /\ \E i \in 1..Len(arg) : arg[i] = <<-1, 3>>
    /\ retval = arg

\* C15: for a finite non-empty array x the mean of remove_dc_offset(x) is
\* zero and sample i of the result is x[i] - mean(x).
C15_RemoveDcZeroMean ==
    (stage.fn = "remove_dc_offset" /\ Len(arg) > 0 /\ AllFinite(arg)) =>
        /\ Len(retval) = Len(arg)
        /\ Mean(retval) = Zero
        /\ \A i \in 1..Len(arg) : retval[i] = RSub(arg[i], Mean(arg))

C15_Witness ==
    /\ stage.fn = "remove_dc_offset" /\ Len(arg) = 3 /\ AllFinite(arg)
    /\ Mean(arg) = <<1, 2>>
    /\ retval # arg
    /\ Mean(retval) = Zero

\* C16 (as claimed): a call of a processing function leaves the array it
\* was given as it was and returns an array of the same length.
C16_StagesPure ==
    (stage.fn # "none" /\ ~stage.raised) =>
        (buffer = arg /\ Len(retval) = Len(arg))

(***************************************************************************)
(* Properties of validate_info.                                            *)
(***************************************************************************)
\* The fields of d the metadata rules object to.
Offending(d) ==
    {f \in Fields : f \notin DOMAIN d}
    \cup {f \in {"name", "id", "description"} \cap DOMAIN d : d[f] # "str"}
    \cup {f \in {"author"} \cap DOMAIN d : d[f] \notin {"str", "empty_str"}}
    \cup {f \in {"tags", "collections", "keywords"} \cap DOMAIN d : d[f] # "list"}
    \cup {f \in {"free"} \cap DOMAIN d : d[f] # "bool"}

\* C17: validate_info fails exactly when a required field is missing, or
\* name, id or description is not a non-empty string, or author is not a
\* string, or tags, collections or keywords is not a list, or free is not
\* a boolean; the error names fields that are at fault, and an empty author
\* string is accepted.
C17_ValidateInfo ==
    verdict.called =>
        /\ verdict.raised <=> Offending(info) # {}
        /\ verdict.raised => (verdict.fields # {} /\ verdict.fields \subseteq Offending(info))
        /\ (DOMAIN info = Fields /\ info["author"] = "empty_str"
               /\ Offending([info EXCEPT !["author"] = "str"]) = {}) => ~verdict.raised

C17_Witness ==
    /\ verdict.called /\ ~verdict.raised
    /\ DOMAIN info = Fields
    /\ info["author"] = "empty_str"


\* C26: for a non-empty array x without nan, align_to_zero_crossing(x) is x
\* rotated left by r, where r is the least i >= 1 with x[i-1] <= 0 < x[i]
\* when there is one and otherwise the first index of a sample of least
\* absolute value; when there is such an i the result starts with a
\* positive sample and ends with a sample <= 0.
C26_AlignRotationIndex ==
    (stage.fn = "align_to_zero_crossing" /\ Len(arg) > 0
        /\ (\A j \in 1..Len(arg) : arg[j] # NaN)) =>
        LET n == Len(arg)
            Up(i) == RLeq(arg[i], Zero) /\ RLess(Zero, arg[i + 1])
            Least(i) == \A j \in 1..n : RLeq(RAbs(arg[i + 1]), RAbs(arg[j]))
            r == IF \E i \in 1..(n - 1) : Up(i)
                 THEN CHOOSE i \in 1..(n - 1) : Up(i) /\ \A k \in 1..(i - 1) : ~Up(k)
                 ELSE CHOOSE i \in 0..(n - 1) : Least(i) /\ \A k \in 0..(i - 1) : ~Least(k)
        IN  /\ ~stage.raised
            /\ retval = [j \in 1..n |-> arg[((j - 1 + r) % n) + 1]]
            /\ (\E i \in 1..(n - 1) : Up(i)) =>
                  RLess(Zero, retval[1]) /\ RLeq(retval[n], Zero)

C26_Witness ==
    /\ stage.fn = "align_to_zero_crossing" /\ Len(arg) = 3
    /\ AllFinite(arg)
    /\ RLess(Zero, arg[1]) /\ RLess(arg[2], Zero) /\ RLess(Zero, arg[3])
    /\ arg[1] # arg[3]
    /\ retval = <<arg[3], arg[1], arg[2]>>

\* C27: for a finite array x with max|x| above EPSILON,
\* normalize_waveform(x, target_peak) is x with every sample multiplied by
\* target_peak / max|x|: its largest absolute sample is target_peak, and the
\* signs and the ratios of the samples are those of x.  An array whose peak
\* is not above EPSILON, the empty array included, is returned as it is.
C27_NormalizeToTarget ==
    (stage.fn = "normalize_waveform" /\ AllFinite(arg)) =>
        LET n == Len(arg)
            t == stage.target_peak
        IN  IF n > 0 /\ GtEpsilon(MaxAbs(arg))
            THEN /\ Len(retval) = n
                 /\ \A i \in 1..n : retval[i] = RMul(arg[i], RDiv(t, MaxAbs(arg)))
                 /\ MaxAbs(retval) = t
                 /\ \A i \in 1..n : Sgn(retval[i][1]) = Sgn(arg[i][1])
                 /\ \A i, j \in 1..n : RMul(retval[i], arg[j]) = RMul(retval[j], arg[i])
            ELSE retval = arg

C27_Witness ==
    /\ stage.fn = "normalize_waveform" /\ Len(arg) = 3 /\ AllFinite(arg)
    /\ stage.target_peak = <<1, 2>>
    /\ MaxAbs(arg) = <<3, 2>>
    /\ \E i \in 1..3 : arg[i] = <<-1, 2>>
    /\ \E i \in 1..3 : retval[i] = <<-1, 6>>
    /\ MaxAbs(retval) = <<1, 2>>

\* C30 as stated: align_to_zero_crossing applied to the result of
\* align_to_zero_crossing on a non-empty finite array returns that result
\* unrotated.
C30_AlignIdempotent ==
    (stage.fn = "align_to_zero_crossing" /\ LastTwo("align_to_zero_crossing")
        /\ ~stage.raised /\ AllFinite(arg)) => retval = arg

\* C30 amended: the second align_to_zero_crossing returns the result of the
\* first unrotated when that result has no i >= 1 with y[i-1] <= 0 < y[i]
\* and its first sample has the least absolute value.
C30_AlignedStaysWhenStable ==
    (stage.fn = "align_to_zero_crossing" /\ LastTwo("align_to_zero_crossing")
        /\ ~stage.raised
        /\ (\A j \in 1..Len(arg) : arg[j] # NaN)
        /\ (\A i \in 1..(Len(arg) - 1) : ~(RLeq(arg[i], Zero) /\ RLess(Zero, arg[i + 1])))
        /\ (\A j \in 1..Len(arg) : RLeq(RAbs(arg[1]), RAbs(arg[j]))))
    => retval = arg

C30_Witness ==
    /\ stage.fn = "align_to_zero_crossing" /\ LastTwo("align_to_zero_crossing")
    /\ Len(arg) = 3 /\ AllFinite(arg)
    /\ RLess(Zero, arg[1]) /\ RLess(arg[1], arg[2]) /\ RLess(arg[3], Zero)
    /\ retval = arg


(***************************************************************************)
(* Properties of the order of the stages of a build.                       *)
(***************************************************************************)
\* The events of trace that ran on a frame, and how many there are.
FrameEvents == SelectSeq(trace, LAMBDA e : e.frame >= 0)

\* The rows as they were stored by the frame loop.
RowsStored == SelectSeq(trace, LAMBDA e : e.stage = "store")

\* The built row of frame k (1-based) of the output.
OutRow(k) == SubSeq(out, (k - 1) * frame_size + 1, k * frame_size)

\* Every row the generator returned during the build is finite.
FiniteRows == \A k \in 1..Len(calls) : AllFinite(Invoke(generator, frame_size, calls[k]))

\* C23: a build with frame_size = 4 and frames = 1 of a generator whose row
\* is [0, 1, 0, -1] leaves the row as it is in DC removal and normalize,
\* rotates it left by one in the alignment, leaves [1, 0, -1, 0] as it is in
\* the clamp and in the wavetable-level stages, and returns exactly
\* [1.0, 0.0, -1.0, 0.0].
C23_UnitScenario ==
    (/\ pc = "done" /\ quality_processing /\ HonoursContract(generator)
     /\ generator.wave = "triangle" /\ frames = 1 /\ frame_size = 4) =>
        /\ Invoke(generator, frame_size, calls[1]) = <<Zero, One, Zero, R(-1)>>
        /\ \A i \in 1..Len(trace) :
              /\ trace[i].stage \in {"remove_dc_offset", "normalize_waveform"}
                    => trace[i].result = <<Zero, One, Zero, R(-1)>>
              /\ trace[i].stage \in {"align_to_zero_crossing", "clamp_amplitude", "store"}
                    => trace[i].result = <<One, Zero, R(-1), Zero>>
              /\ trace[i].stage \in {"remove_wavetable_dc_offset", "global_normalize"}
                    => trace[i].result = << <<One, Zero, R(-1), Zero>> >>
        /\ \E i \in 1..Len(trace) : trace[i].stage = "align_to_zero_crossing"
        /\ out = << <<1, 0>>, <<0, 0>>, <<-1, 0>>, <<0, 0>> >>

C23_Witness ==
    /\ pc = "done" /\ quality_processing /\ generator.wave = "triangle"
    /\ frames = 1 /\ frame_size = 4 /\ processing_config = AllTrue
    /\ [i \in 1..Len(trace) |-> trace[i].stage] =
          <<"remove_dc_offset", "normalize_waveform", "align_to_zero_crossing",
            "clamp_amplitude", "store", "remove_wavetable_dc_offset",
            "global_normalize", "flatten">>
    /\ out = << <<1, 0>>, <<0, 0>>, <<-1, 0>>, <<0, 0>> >>

\* C24: in a build with quality processing, the stages run on every frame
\* are, in this order, remove_dc_offset (exactly when wf_dc_remove),
\* normalize_waveform (exactly when wf_normalise), align_to_zero_crossing,
\* clamp_amplitude and the store into the table, each once, frame after
\* frame; the clamp works on what the alignment returned and the row stored
\* is what the clamp returned.
C24_FrameStageOrder ==
    (pc \in {"loop", "done"} /\ quality_processing /\ HonoursContract(generator)) =>
        LET Expected ==
                (IF processing_config["wf_dc_remove"] THEN <<"remove_dc_offset">> ELSE <<>>)
                \o (IF processing_config["wf_normalise"]
                    THEN <<"normalize_waveform">> ELSE <<>>)
                \o <<"align_to_zero_crossing", "clamp_amplitude", "store">>
            n  == Len(Expected)
            fe == FrameEvents
        IN  /\ Len(fe) = frame_idx * n
            /\ \A k \in 0..(frame_idx - 1) :
                  /\ \A i \in 1..n : /\ fe[k * n + i].frame = k
                                     /\ fe[k * n + i].stage = Expected[i]
                  /\ fe[k * n + n - 1].result = clamp_amplitude(fe[k * n + n - 2].result)
                  /\ fe[k * n + n].result = fe[k * n + n - 1].result
                  /\ pc = "loop" => table[k + 1] = fe[k * n + n - 1].result

C24_Witness ==
    /\ pc = "loop" /\ quality_processing /\ HonoursContract(generator)
    /\ processing_config["wf_dc_remove"] /\ ~processing_config["wf_normalise"]
    /\ frame_idx = 2 /\ frame_size >= 3
    /\ Len(trace) = 8
    /\ trace[5].stage = "remove_dc_offset" /\ trace[5].frame = 1
    /\ trace[5].result # Invoke(generator, frame_size, calls[2])
    /\ trace[6].stage = "align_to_zero_crossing"
    /\ trace[6].result # trace[5].result
    /\ trace[7].result # trace[6].result
    /\ table[2] = trace[7].result

\* C25: when a build with quality processing has returned, every stage on a
\* frame and every store came before every wavetable-level stage; one row
\* was stored per frame; the wavetable-level stages were
\* remove_wavetable_dc_offset (exactly when wt_dc_remove, subtracting the
\* mean of all frames * frame_size stored samples), then the global
\* normalization (exactly when wt_normalise), then one flatten, which gave
\* the returned buffer.
C25_TableStagesAfterFrames ==
    (pc = "done" /\ quality_processing /\ HonoursContract(generator)) =>
        LET m  == Len(FrameEvents)
            te == SubSeq(trace, m + 1, Len(trace))
            Expected ==
                (IF processing_config["wt_dc_remove"]
                 THEN <<"remove_wavetable_dc_offset">> ELSE <<>>)
                \o (IF processing_config["wt_normalise"]
                    THEN <<"global_normalize">> ELSE <<>>)
                \o <<"flatten">>
            rows == [k \in 1..Len(RowsStored) |-> RowsStored[k].result]
        IN  /\ \A i \in 1..m : trace[i].frame >= 0
            /\ \A i \in (m + 1)..Len(trace) : trace[i].frame = -1
            /\ Len(RowsStored) = frames
            /\ \A k \in 1..frames : RowsStored[k].frame = k - 1
            /\ [i \in 1..Len(te) |-> te[i].stage] = Expected
            /\ (processing_config["wt_dc_remove"] /\ frames > 0 /\ frame_size > 0) =>
                  te[1].result =
                      [k \in 1..frames |->
                          [j \in 1..frame_size |-> RSub(rows[k][j], Mean(Concat(rows)))]]
            /\ table = (IF Len(te) > 1 THEN te[Len(te) - 1].result ELSE rows)
            /\ te[Len(te)].result = out
            /\ out = MapSeq(Concat(table), astype_float32)
            /\ Len(out) = frames * frame_size

C25_Witness ==
    /\ pc = "done" /\ quality_processing /\ HonoursContract(generator)
    /\ frames >= 2 /\ frame_size >= 3 /\ FiniteRows
    /\ processing_config["wt_dc_remove"] /\ processing_config["wt_normalise"]
    /\ Len(trace) >= 3
    /\ trace[Len(trace) - 2].stage = "remove_wavetable_dc_offset"
    /\ trace[Len(trace) - 2].result # [k \in 1..Len(RowsStored) |-> RowsStored[k].result]
    /\ trace[Len(trace) - 1].stage = "global_normalize"
    /\ trace[Len(trace) - 1].result # trace[Len(trace) - 2].result
    /\ trace[Len(trace)].stage = "flatten"

\* C28: every sample of the buffer a build returns lies in [-1, 1], for every
\* combination of the four flags and every generator with finite rows.
C28_OutputInUnit ==
    (pc = "done" /\ quality_processing /\ HonoursContract(generator) /\ FiniteRows) =>
        \A i \in 1..Len(out) : F32InUnit(out[i])

\* C29: in the returned buffer, every frame whose row had an i >= 1 with
\* x[i-1] <= 0 < x[i] when it was handed to the alignment starts with a
\* sample > 0 and ends with a sample <= 0, for every combination of the
\* four flags.
C29_FramesStartAtCrossing ==
    (pc = "done" /\ quality_processing /\ HonoursContract(generator) /\ FiniteRows) =>
        \A i \in 1..Len(trace) :
            (trace[i].stage = "align_to_zero_crossing") =>
                LET k == trace[i].frame
                    x == IF i > 1 /\ trace[i - 1].frame = k
                         THEN trace[i - 1].result
                         ELSE Invoke(generator, frame_size, calls[k + 1])
                IN  (\E j \in 1..(Len(x) - 1) : RLeq(x[j], Zero) /\ RLess(Zero, x[j + 1]))
                    => /\ OutRow(k + 1)[1][1] > 0
                       /\ OutRow(k + 1)[frame_size][1] <= 0


(***************************************************************************)
(* Properties of cli.main.                                                 *)
(***************************************************************************)
\* C21: a batch whose output directory could be created attempts every one
\* of the |generators| x 4 x 2 x 2 combinations exactly once, in the order
\* of the nested loops, whatever the earlier requests ended with: when main
\* has returned, the requests made are exactly that list.
C21_BatchAttemptsAll ==
    (main.mode = "batch" /\ main.exit_code # -1 /\ op.kind # "main") =>
        /\ Len(main.attempted) = total_combinations(DECORATOR_REGISTRY)
        /\ \A i \in 1..Len(main.attempted) :
              main.attempted[i] = RequestAt(DECORATOR_REGISTRY, i)

\* C22: when main was given a generator name and has returned, its status
\* is 0 if the wavetable was built and exported and non-zero if the request
\* failed.
C22_ExitStatusReportsOutcome ==
    (main.mode = "waveform" /\ main.exit_code # -1) =>
        (main.exit_code = 0 <=> op.result = "Success")

====
